---- MODULE Spec2Model ----
(***************************************************************************)
(* Model of discretionary_engine.                                          *)
(*  Spec    the followup phase (src/src/positions.rs,                      *)
(*          PositionFollowup::do_followup): the event loop that merges     *)
(*          strategy batches and fill notifications, the closures          *)
(*          update_unrolled and update_target_orders, and                  *)
(*          TargetOrders::update_orders.                                   *)
(*  SpecAcq the acquisition phase (PositionAcquisition::do_acquisition).   *)
(*  SpecTs  the trailing stop strategy (src/src/protocols/trailing_stop.rs)*)
(*  SpecMain main's size match (src/src/main.rs) followed by the          *)
(*          acquisition it invokes.                                        *)
(* f64 notionals and prices are modelled as integers; percentages are      *)
(* whole percents.                                                         *)
(***************************************************************************)
EXTENDS Integers, Sequences, FiniteSets, TLC

\* ------------------------------------------------------------------ bounds
\* Number of events (batches sent, fills reported, strategies stopping) the
\* environment produces in one run.
MaxEvents == 2
\* Number of polls of the entry order followed in one acquisition.
MaxPolls == 3
\* Number of messages of the mark-price stream followed in one attach.
MaxTicks == 3

Range(s) == {s[i] : i \in 1..Len(s)}

\* ------------------------------------------------------------ input sets
Sides == {"Buy", "Sell"}
PriceSet == {90, 95}
PctSet == {60, 100}
FillSet == {300}
\* acquired_notional is the origQty the exchange reported for the entry order.
AcquiredSet == {0, 1000}
\* The strategies handed to do_followup: two of the same subtype, two of
\* different subtypes (tsA, tsB, spC send any kind of order), or two trailing
\* stops (trS, trT send stop orders only, as TrailingStop does).
ProtocolConfigs == {<<"tsA", "tsB">>, <<"tsA", "spC">>, <<"trS", "trT">>}
AllProducers == {"tsA", "tsB", "spC", "trS", "trT"}
StopOnlyProducers == {"trS", "trT"}
\* A trailing stop covers the whole size it controls.
StopOnlyPctSet == {100}
\* The two trailing stops are followed for one event more than the others.
EventBudget(ps) == IF Range(ps) \subseteq StopOnlyProducers THEN MaxEvents + 1 ELSE MaxEvents
\* The positions followed: every configuration with the whole entry order
\* acquired, and the trailing stops also with nothing acquired.
Setups ==
    {su \in [protocols : ProtocolConfigs, acquired_notional : AcquiredSet] :
        su.acquired_notional = 0 => Range(su.protocols) \subseteq StopOnlyProducers}

\* Acquisition: target sizes in USDT, prices and quantity precisions of the
\* asset.
SizeSet == {30, 1000}
AcqPriceSet == {40000, 50000}
PrecisionSet == {2, 3}
\* Statuses of binance::OrderStatus.
OrderStatuses == {"New", "PartiallyFilled", "Filled", "Canceled", "Expired", "ExpiredInMatch"}
\* main: the size argument of the command line (hundredths of the balance)
\* and the total balance of the account; get_balance sums the assets of the
\* account from 0.0.
CliSizeSet == {-50, 0, 50}
BalanceSet == {0, 2000}
\* Trailing stop: mark prices and the percent parameter (whole percents).
TsPriceSet == {100, 200, 300}
TsPercentSet == {10, 50}

\* ----------------------------------------------------------------- state
VARIABLES
    pc,                     \* "Running" | "Panicked" | "Returned"
    protocols,              \* Vec<FollowupProtocol> given to do_followup
    side,                   \* acquired.spec.side
    acquired_notional,      \* acquired.acquired_notional
    closed_notional,        \* local closed_notional
    counted_subtypes,       \* HashMap<ProtocolType, usize>
    alive,                  \* strategies still holding their clone of tx_orders
    rx_orders,              \* batches in flight on the orders channel
    rx_fills,               \* fill notifications in flight
    fills_open,             \* the fill source still holds its sender
    fills_arm,              \* select! arm on rx_fills: "enabled" | "disabled"
    all_requested,          \* HashMap<String, ProtocolOrders>
    all_requested_unrolled, \* HashMap<String, Vec<ConceptualOrder>>
    all_fills,              \* HashMap<Uuid, f64>
    target_orders,          \* TargetOrders
    sent,                   \* last Vec<ConceptualOrder> sent by update_orders
    n_published,            \* number of sends by update_orders
    n_events,               \* events sent so far by the environment
    last_pass               \* record of the latest handled event

followup_vars ==
    <<pc, protocols, side, acquired_notional, closed_notional,
      counted_subtypes, alive, rx_orders, rx_fills, fills_open, fills_arm,
      all_requested, all_requested_unrolled, all_fills, target_orders, sent,
      n_published, n_events, last_pass>>

\* do_acquisition
VARIABLES
    acq_pc,             \* "Idle" | "Start" | "Polling" | "Done" | "Err"
    acq_spec,           \* PositionSpec [side, size_usdt]
    acq_price,          \* binance::futures_price
    acq_precision,      \* binance::futures_quantity_precision
    acq_target,         \* target_notional, in units of 10^-precision
    acq_acquired,       \* acquired_notional, in units of 10^-precision
    acq_posted,         \* calls of post_futures_order
    acq_polls,          \* calls of poll_futures_order
    acq_failed_polls,   \* of which returned an error
    acq_last_poll       \* result of the latest poll: a status, "error", "none"

acq_vars == <<acq_pc, acq_spec, acq_price, acq_precision, acq_target,
              acq_acquired, acq_posted, acq_polls, acq_failed_polls, acq_last_poll>>

\* TrailingStop::attach
VARIABLES
    ts_pc,              \* "Idle" | "Streaming" | "Returned" | "Panicked"
    ts_side,            \* side of the position
    ts_percent,         \* TrailingStop.percent
    ts_top,             \* cache.top
    ts_bottom,          \* cache.bottom
    ts_orders,          \* orders: Vec of StopMarketWhere
    ts_stream,          \* "open" | "ended" | "failed"
    ts_result,          \* what attach handed back: "none" | "Ok" | "Err"
    ts_ticks,           \* messages read so far
    ts_last             \* the latest message

ts_vars == <<ts_pc, ts_side, ts_percent, ts_top, ts_bottom, ts_orders,
             ts_stream, ts_result, ts_ticks, ts_last>>

\* main
VARIABLES
    main_pc,            \* "Idle" | "Parsed" | "Exited" | "Acquiring"
    cli_size,           \* position_args.size, in hundredths
    balance             \* result of api::compile_total_balance

main_vars == <<main_pc, cli_size, balance>>

vars == <<followup_vars, acq_vars, ts_vars, main_vars>>

\* --------------------------------------------------------------- helpers

RECURSIVE SumNotional(_)
SumNotional(orders) ==
    IF orders = <<>> THEN 0
    ELSE Head(orders).notional + SumNotional(Tail(orders))

RECURSIVE Concat(_)
Concat(seqs) == IF seqs = <<>> THEN <<>> ELSE Head(seqs) \o Concat(Tail(seqs))

OfKind(orders, kind) == SelectSeq(orders, LAMBDA o : o.kind = kind)

\* All iteration orders a HashMap over the key set S can produce.
IterationOrders(S) ==
    {f \in [1..Cardinality(S) -> S] : \A i, j \in 1..Cardinality(S) : f[i] = f[j] => i = j}

\* -------------------------------------------- strategies and their output
\* FollowupProtocol::get_subtype of the protocol a producer string names.
get_subtype(producer) ==
    IF producer \in {"tsA", "tsB", "trS", "trT"} THEN "Momentum" ELSE "Preset"

\* One order of a batch, in percent of the size its producer controls.
OrderPercents(producer) ==
    {[kind |-> "Market", price |-> 0, pct |-> q, produced_by |-> producer,
      uuid |-> <<producer, 1>>] : q \in PctSet}
    \cup
    {[kind |-> k, price |-> p, pct |-> q, produced_by |-> producer,
      uuid |-> <<producer, 1>>] :
        k \in {"StopMarket", "Limit"}, p \in PriceSet, q \in PctSet}

\* A ProtocolOrders value a strategy can send.
BatchSet(producer) ==
    IF producer \in StopOnlyProducers
    THEN {[produced_by |-> producer, orders |-> <<o>>] :
            o \in {x \in OrderPercents(producer) :
                     x.kind = "StopMarket" /\ x.pct \in StopOnlyPctSet}}
    ELSE {[produced_by |-> producer, orders |-> <<>>]}
         \cup {[produced_by |-> producer, orders |-> <<o>>] : o \in OrderPercents(producer)}

FillEvents ==
    {[uuid |-> <<p, 1>>, produced_by |-> p, filled_notional |-> f] :
        p \in AllProducers, f \in FillSet}

\* ProtocolOrders::empty_mask: every sub-order of the batch, nothing filled.
empty_mask(batch) ==
    [u \in {batch.orders[i].uuid : i \in 1..Len(batch.orders)} |-> 0]

\* ProtocolOrders::apply_mask: scale each sub-order to the controlled size,
\* take off what the mask records as filled, drop what is fully filled.
to_exact(o, mask, total_controlled_size) ==
    [kind |-> o.kind, price |-> o.price, produced_by |-> o.produced_by,
     uuid |-> o.uuid,
     notional |-> ((total_controlled_size * o.pct) \div 100) - mask[o.uuid]]

apply_mask(batch, mask, total_controlled_size) ==
    SelectSeq([i \in 1..Len(batch.orders) |->
                  to_exact(batch.orders[i], mask, total_controlled_size)],
              LAMBDA o : o.notional > 0)

\* ConceptualOrder::cut_size
cut_size(order, size) == [order EXCEPT !.notional = size]

\* ---------------------------------------------------------- do_followup
\* HashMap::insert: the value under key is replaced, other entries stay.
insert_keep_old(map, key, value) == map @@ (key :> value)

insert_only(map, key, value) == (key :> value)

insert(map, key, value) == (key :> value) @@ map

\* all_fills.insert(protocol_order_id.uuid, filled_notional)
record_fill_adding(fills, fill) ==
    insert(fills, fill.uuid,
           IF fill.uuid \in DOMAIN fills
           THEN fills[fill.uuid] + fill.filled_notional
           ELSE fill.filled_notional)

record_fill(fills, fill) == insert(fills, fill.uuid, fill.filled_notional)

\* closed_notional over the fills arm: the arm records the fill in the
\* ledger and recomputes; closed_notional keeps the value it was given at
\* entry.
closed_after_fill_adding(closed, fill) == closed + fill.filled_notional
closed_after_fill(closed, fill) == closed

\* The senders of the orders channel still alive: the clones handed to the
\* strategies, and tx_orders itself, which do_followup keeps until it returns.
orders_senders == alive \cup {"do_followup"}

\* rx_orders.recv() resolves to None: no sender is left and nothing is queued.
orders_channel_closed == orders_senders = {} /\ rx_orders = <<>>
\* counted_subtypes after the counting loop over the protocols.
CountSubtypes(ps) ==
    [t \in {get_subtype(ps[i]) : i \in 1..Len(ps)} |->
        Cardinality({i \in 1..Len(ps) : get_subtype(ps[i]) = t})]

\* The count update_unrolled divides by (frozen at attach time).
SubtypeCountLive(subtype) ==
    Cardinality({p \in alive : get_subtype(p) = subtype})

SubtypeCount(subtype) == counted_subtypes[subtype]

\* total_controlled_size = acquired_notional * (1.0 / count)
TotalControlledSizeUnsplit(update_on) == acquired_notional

total_controlled_size(update_on) ==
    acquired_notional \div SubtypeCount(get_subtype(update_on))

\* update_unrolled: the mask of update_on's batch filled from the ledger,
\* and the batch after apply_mask.
unroll_mask(requested, fills, update_on) ==
    LET mask == empty_mask(requested[update_on])
    IN  [u \in DOMAIN mask |-> IF u \in DOMAIN fills THEN fills[u] ELSE mask[u]]

update_unrolled(requested, fills, update_on) ==
    insert(all_requested_unrolled, update_on,
           apply_mask(requested[update_on],
                      unroll_mask(requested, fills, update_on),
                      total_controlled_size(update_on)))

\* ------------------------------------------------ update_target_orders
\* The three pools, filled in the iteration order of all_requested_unrolled.
pool(unrolled, order, kind) ==
    Concat([i \in 1..Len(order) |-> OfKind(unrolled[order[i]], kind)])

\* One iteration of the inner closure's loop over a pool.
\* st = [full, spot, normal, out, ok]
process_order_clipped(order, st) ==
    LET notional == order.notional
        compare_against ==
            CASE order.kind = "StopMarket" -> st.spot
              [] order.kind = "Limit" -> st.normal
              [] order.kind = "Market" -> st.full
        cut == IF notional > compare_against
               THEN cut_size(order, compare_against) ELSE order
        full == IF order.kind = "Market" THEN st.full - cut.notional ELSE st.full
        spot == IF order.kind \in {"Market", "StopMarket"}
                THEN st.spot - cut.notional ELSE st.spot
        normal == IF order.kind \in {"Market", "Limit"}
                  THEN st.normal - cut.notional ELSE st.normal
    IN  [full |-> full, spot |-> spot, normal |-> normal,
         out |-> Append(st.out, cut), ok |-> spot >= 0 /\ normal >= 0]

process_order_unasserted(order, st) ==
    LET notional == order.notional
        compare_against ==
            CASE order.kind = "StopMarket" -> st.spot
              [] order.kind = "Limit" -> st.normal
              [] order.kind = "Market" -> st.full
        cut == IF notional > compare_against
               THEN cut_size(order, compare_against) ELSE order
        full == IF order.kind = "Market" THEN st.full - notional ELSE st.full
        spot == IF order.kind \in {"Market", "StopMarket"}
                THEN st.spot - notional ELSE st.spot
        normal == IF order.kind \in {"Market", "Limit"}
                  THEN st.normal - notional ELSE st.normal
    IN  [full |-> full, spot |-> spot, normal |-> normal,
         out |-> Append(st.out, cut), ok |-> TRUE]

process_order_full_only(order, st) ==
    LET notional == order.notional
        compare_against ==
            CASE order.kind = "StopMarket" -> st.spot
              [] order.kind = "Limit" -> st.normal
              [] order.kind = "Market" -> st.full
        cut == IF notional > compare_against
               THEN cut_size(order, compare_against) ELSE order
        full == IF order.kind = "Market" THEN st.full - notional ELSE st.full
        spot == IF order.kind = "StopMarket" THEN st.spot - notional ELSE st.spot
        normal == IF order.kind = "Limit" THEN st.normal - notional ELSE st.normal
    IN  [full |-> full, spot |-> spot, normal |-> normal,
         out |-> Append(st.out, cut), ok |-> spot >= 0 /\ normal >= 0]

process_order(order, st) ==
    LET notional == order.notional
        compare_against ==
            CASE order.kind = "StopMarket" -> st.spot
              [] order.kind = "Limit" -> st.normal
              [] order.kind = "Market" -> st.full
        cut == IF notional > compare_against
               THEN cut_size(order, compare_against) ELSE order
        full == IF order.kind = "Market" THEN st.full - notional ELSE st.full
        spot == IF order.kind \in {"Market", "StopMarket"}
                THEN st.spot - notional ELSE st.spot
        normal == IF order.kind \in {"Market", "Limit"}
                  THEN st.normal - notional ELSE st.normal
    IN  [full |-> full, spot |-> spot, normal |-> normal,
         out |-> Append(st.out, cut), ok |-> spot >= 0 /\ normal >= 0]

\* The inner closure: the loop stops at the first failed assertion.
RECURSIVE process_pool(_, _)
process_pool(orders, st) ==
    IF orders = <<>> \/ ~st.ok THEN st
    ELSE process_pool(Tail(orders), process_order(Head(orders), st))

\* Vec::sort_by (stable) on price, descending or ascending.
RECURSIVE insert_sorted(_, _, _)
insert_sorted(x, sorted, descending) ==
    IF sorted = <<>> THEN <<x>>
    ELSE IF (IF descending THEN x.price > Head(sorted).price
                           ELSE x.price < Head(sorted).price)
         THEN <<x>> \o sorted
         ELSE <<Head(sorted)>> \o insert_sorted(x, Tail(sorted), descending)

RECURSIVE sort_from(_, _, _)
sort_from(orders, sorted, descending) ==
    IF orders = <<>> THEN sorted
    ELSE sort_from(Tail(orders), insert_sorted(Head(orders), sorted, descending), descending)

sort_by_price(orders, descending) == sort_from(orders, <<>>, descending)

stop_descending(s) == s = "Buy"

sort_stop_orders(orders, s) == sort_by_price(orders, stop_descending(s))

sort_limit_orders(orders, s) == sort_by_price(orders, ~stop_descending(s))

\* The trackers before any order is processed.
initial_trackers ==
    LET left == acquired_notional - closed_notional
    IN  [full |-> left, spot |-> left, normal |-> left, out |-> <<>>, ok |-> TRUE]

\* The whole pass up to (not including) target_orders.update_orders, for one
\* iteration order of the map.
recompute(unrolled, order) ==
    LET after_market == process_pool(pool(unrolled, order, "Market"), initial_trackers)
        after_stop ==
            process_pool(sort_stop_orders(pool(unrolled, order, "StopMarket"), side),
                         after_market)
    IN  process_pool(sort_limit_orders(pool(unrolled, order, "Limit"), side), after_stop)

\* ------------------------------------------- TargetOrders::update_orders
update_orders(t, orders) ==
    [stop_orders_total_notional |->
        t.stop_orders_total_notional + SumNotional(OfKind(orders, "StopMarket")),
     normal_orders_total_notional |->
        t.normal_orders_total_notional + SumNotional(OfKind(orders, "Limit")),
     market_orders_total_notional |->
        t.market_orders_total_notional + SumNotional(OfKind(orders, "Market")),
     orders |-> t.orders \o orders]

\* ------------------------------------------------------------------ Init
\* TargetOrders::default()
EmptyTargetOrders ==
    [stop_orders_total_notional |-> 0,
     normal_orders_total_notional |-> 0,
     market_orders_total_notional |-> 0,
     orders |-> <<>>]

\* Record of the latest handled event: what it was, the trackers when the
\* pass ended (at its end or at the failed assertion), the orders it
\* produced, and the target orders before it.
NoPass ==
    [n |-> 0, event |-> "none", update_on |-> "none", total_controlled_size |-> 0,
     alive |-> {}, same_inputs |-> FALSE,
     full |-> 0, spot |-> 0, normal |-> 0, ok |-> TRUE,
     new_target_orders |-> <<>>, before |-> EmptyTargetOrders]

\* The phases not running in a specification stay as they are.
AcqIdle ==
    /\ acq_pc = "Idle"
    /\ acq_spec = [side |-> "Buy", size_usdt |-> 0]
    /\ acq_price = 0
    /\ acq_precision = 0
    /\ acq_target = 0
    /\ acq_acquired = 0
    /\ acq_posted = 0
    /\ acq_polls = 0
    /\ acq_failed_polls = 0
    /\ acq_last_poll = "none"

MainIdle ==
    /\ main_pc = "Idle"
    /\ cli_size = 0
    /\ balance = 0

TsIdle ==
    /\ ts_pc = "Idle"
    /\ ts_side = "Buy"
    /\ ts_percent = 0
    /\ ts_top = 0
    /\ ts_bottom = 0
    /\ ts_orders = <<>>
    /\ ts_stream = "open"
    /\ ts_result = "none"
    /\ ts_ticks = 0
    /\ ts_last = [type |-> "none"]

FollowupIdle ==
    /\ pc = "Idle"
    /\ protocols = <<>>
    /\ side = "Buy"
    /\ acquired_notional = 0
    /\ closed_notional = 0
    /\ counted_subtypes = CountSubtypes(<<>>)
    /\ alive = {}
    /\ rx_orders = <<>>
    /\ rx_fills = <<>>
    /\ fills_open = TRUE
    /\ fills_arm = "enabled"
    /\ all_requested = <<>>
    /\ all_requested_unrolled = <<>>
    /\ all_fills = <<>>
    /\ target_orders = EmptyTargetOrders
    /\ sent = <<>>
    /\ n_published = 0
    /\ n_events = 0
    /\ last_pass = NoPass

Init ==
    /\ MainIdle
    /\ AcqIdle
    /\ TsIdle
    /\ pc = "Running"
    /\ \E su \in Setups :
         /\ protocols = su.protocols
         /\ acquired_notional = su.acquired_notional
    /\ side \in Sides
    /\ closed_notional = 0
    /\ counted_subtypes = CountSubtypes(protocols)
    /\ alive = Range(protocols)
    /\ rx_orders = <<>>
    /\ rx_fills = <<>>
    /\ fills_open = TRUE
    /\ fills_arm = "enabled"
    /\ all_requested = <<>>
    /\ all_requested_unrolled = <<>>
    /\ all_fills = <<>>
    /\ target_orders = EmptyTargetOrders
    /\ sent = <<>>
    /\ n_published = 0
    /\ n_events = 0
    /\ last_pass = NoPass

\* --------------------------------------------------------------- actions
\* A strategy task pushes a full replacement batch onto the orders channel.
StrategySend(p, batch) ==
    /\ pc = "Running"
    /\ UNCHANGED <<acq_vars, ts_vars, main_vars>>
    /\ p \in alive
    /\ n_events < EventBudget(protocols)
    /\ rx_orders' = Append(rx_orders, batch)
    /\ n_events' = n_events + 1
    /\ UNCHANGED <<pc, protocols, side, acquired_notional, closed_notional,
                   counted_subtypes, alive, rx_fills, fills_open, fills_arm,
                   all_requested, all_requested_unrolled, all_fills,
                   target_orders, sent, n_published, last_pass>>

\* A strategy's signal source ends or fails: its task stops and drops its
\* sender.
StrategyStop(p) ==
    /\ pc = "Running"
    /\ UNCHANGED <<acq_vars, ts_vars, main_vars>>
    /\ p \in alive
    /\ n_events < EventBudget(protocols)
    /\ alive' = alive \ {p}
    /\ n_events' = n_events + 1
    /\ UNCHANGED <<pc, protocols, side, acquired_notional, closed_notional,
                   counted_subtypes, rx_orders, rx_fills, fills_open, fills_arm,
                   all_requested, all_requested_unrolled, all_fills,
                   target_orders, sent, n_published, last_pass>>

\* The fill source reports a fill on a protocol order.
FillSend(fill) ==
    /\ pc = "Running"
    /\ UNCHANGED <<acq_vars, ts_vars, main_vars>>
    /\ fills_open
    /\ fill.produced_by \in Range(protocols)
    /\ n_events < EventBudget(protocols)
    /\ rx_fills' = Append(rx_fills, fill)
    /\ n_events' = n_events + 1
    /\ UNCHANGED <<pc, protocols, side, acquired_notional, closed_notional,
                   counted_subtypes, alive, rx_orders, fills_open, fills_arm,
                   all_requested, all_requested_unrolled, all_fills,
                   target_orders, sent, n_published, last_pass>>

\* The body of one select! arm after the insert: update_unrolled(update_on)
\* then update_target_orders().
Followup(event, requested, fills, update_on) ==
    /\ all_requested' = requested
    /\ all_fills' = fills
    /\ IF update_on \notin DOMAIN requested
       THEN \* all_requested[&update_on] on a missing key
            /\ pc' = "Panicked"
            /\ last_pass' = [NoPass EXCEPT !.n = last_pass.n + 1, !.event = event,
                                           !.update_on = update_on, !.ok = FALSE,
                                           !.alive = alive,
                                           !.before = target_orders]
            /\ UNCHANGED <<all_requested_unrolled, target_orders, sent, n_published>>
       ELSE LET unrolled == update_unrolled(requested, fills, update_on)
            IN  /\ all_requested_unrolled' = unrolled
                /\ \E order \in IterationOrders(DOMAIN unrolled) :
                     LET r == recompute(unrolled, order)
                     IN  /\ last_pass' =
                               [n |-> last_pass.n + 1, event |-> event,
                                update_on |-> update_on,
                                total_controlled_size |-> total_controlled_size(update_on),
                                alive |-> alive,
                                same_inputs |-> /\ requested = all_requested
                                                /\ fills = all_fills
                                                /\ last_pass.n > 0
                                                /\ last_pass.ok,
                                full |-> r.full, spot |-> r.spot, normal |-> r.normal,
                                ok |-> r.ok, new_target_orders |-> r.out,
                                before |-> target_orders]
                         /\ IF r.ok
                            THEN /\ target_orders' = update_orders(target_orders, r.out)
                                 /\ sent' = target_orders'.orders
                                 /\ n_published' = n_published + 1
                                 /\ pc' = "Running"
                            ELSE \* a failed assert!: the task unwinds
                                 /\ pc' = "Panicked"
                                 /\ UNCHANGED <<target_orders, sent, n_published>>

\* select! arm: Some(protocol_orders) = rx_orders.recv()
RecvOrders ==
    /\ pc = "Running"
    /\ UNCHANGED <<acq_vars, ts_vars, main_vars>>
    /\ rx_orders # <<>>
    /\ LET protocol_orders == Head(rx_orders)
       IN  Followup("orders",
                    insert(all_requested, protocol_orders.produced_by, protocol_orders),
                    all_fills, protocol_orders.produced_by)
    /\ rx_orders' = Tail(rx_orders)
    /\ fills_arm' = "enabled"
    /\ UNCHANGED <<protocols, side, acquired_notional, closed_notional,
                   counted_subtypes, alive, rx_fills, fills_open, n_events>>

\* select! arm: Some((protocol_order_id, filled_notional)) = rx_fills.recv()
RecvFills ==
    /\ pc = "Running"
    /\ UNCHANGED <<acq_vars, ts_vars, main_vars>>
    /\ rx_fills # <<>>
    /\ LET fill == Head(rx_fills)
       IN  Followup("fill", all_requested,
                    record_fill(all_fills, fill),
                    fill.produced_by)
    /\ rx_fills' = Tail(rx_fills)
    /\ fills_arm' = "enabled"
    /\ closed_notional' = closed_after_fill(closed_notional, Head(rx_fills))
    /\ UNCHANGED <<protocols, side, acquired_notional,
                   counted_subtypes, alive, rx_orders, fills_open, n_events>>

\* The fill source goes away and drops its sender.
FillSourceClose ==
    /\ pc = "Running"
    /\ UNCHANGED <<acq_vars, ts_vars, main_vars>>
    /\ fills_open
    /\ n_events < EventBudget(protocols)
    /\ fills_open' = FALSE
    /\ n_events' = n_events + 1
    /\ UNCHANGED <<pc, protocols, side, acquired_notional, closed_notional,
                   counted_subtypes, alive, rx_orders, rx_fills, fills_arm,
                   all_requested, all_requested_unrolled, all_fills,
                   target_orders, sent, n_published, last_pass>>

\* rx_fills.recv() resolves to None, so its select! arm is disabled for this
\* turn of the loop: the else arm breaks out of the loop if the arm on
\* rx_orders resolves to None too, otherwise the loop goes on waiting for
\* rx_orders alone.
RecvFillsNone ==
    /\ pc = "Running"
    /\ UNCHANGED <<acq_vars, ts_vars, main_vars>>
    /\ fills_arm = "enabled"
    /\ ~fills_open
    /\ rx_fills = <<>>
    /\ IF orders_channel_closed
       THEN pc' = "Returned" /\ fills_arm' = fills_arm
       ELSE pc' = pc /\ fills_arm' = "disabled"
    /\ UNCHANGED <<protocols, side, acquired_notional, closed_notional,
                   counted_subtypes, alive, rx_orders, rx_fills, fills_open,
                   all_requested, all_requested_unrolled, all_fills,
                   target_orders, sent, n_published, n_events, last_pass>>

SendOrders == \E p \in AllProducers : \E batch \in BatchSet(p) : StrategySend(p, batch)

StopStrategy == \E p \in AllProducers : StrategyStop(p)

SendFill == \E fill \in FillEvents : FillSend(fill)

Next ==
    \/ SendOrders
    \/ StopStrategy
    \/ SendFill
    \/ RecvOrders
    \/ RecvFills
    \/ FillSourceClose
    \/ RecvFillsNone

Spec == Init /\ [][Next]_vars

\* ------------------------------------------------------- claim vocabulary
\* The latest handled event got as far as update_target_orders.
PassRan == last_pass.n > 0 /\ last_pass.update_on \in DOMAIN all_requested

PassCompleted == PassRan /\ last_pass.ok

\* Combined notional of one pool of the latest pass (before any clipping).
PoolTotal(kind) ==
    SumNotional(pool(all_requested_unrolled,
                     CHOOSE o \in IterationOrders(DOMAIN all_requested_unrolled) : TRUE,
                     kind))

RemainingFull == acquired_notional - closed_notional

\* What the market pool leaves to the stop pool and to the limit pool.
BudgetAfterMarket == RemainingFull - PoolTotal("Market")

\* The orders of one kind the latest pass produced, as <<price, notional>>.
Produced(kind) ==
    LET os == OfKind(last_pass.new_target_orders, kind)
    IN  [i \in 1..Len(os) |-> <<os[i].price, os[i].notional>>]

SeqToBag(s) == [x \in Range(s) |-> Cardinality({i \in 1..Len(s) : s[i] = x})]

\* ------------------------------------------------------------------ claims
\* C1: with closed_notional <= acquired_notional, the stop tracker and the
\* limit tracker are >= 0 after every processed order of every pass, so the
\* two assertions of update_target_orders never fail.
C1_TrackersNeverNegative ==
    closed_notional <= acquired_notional =>
        /\ last_pass.spot >= 0
        /\ last_pass.normal >= 0
        /\ (PassRan => last_pass.ok)

\* C2: when the stop pool (or the limit pool) asks for more than its
\* remaining budget, the pass completes and the pool's orders in the result
\* total exactly that budget.
C2_ClippingIsExact ==
    \A kind \in {"StopMarket", "Limit"} :
        (PassRan /\ BudgetAfterMarket >= 0 /\ PoolTotal(kind) > BudgetAfterMarket) =>
            /\ last_pass.ok
            /\ SumNotional(OfKind(last_pass.new_target_orders, kind)) = BudgetAfterMarket

\* C3: stop orders are processed nearest-first (descending price for Buy,
\* ascending for Sell) and limit orders the other way round; in particular
\* Buy with stops of 600 at 90 and at 95 and 1000 left yields 600 at 95 and
\* 400 at 90.
C3_ProcessedInPriceOrder ==
    PassRan =>
        LET stops == Produced("StopMarket")
            limits == Produced("Limit")
        IN  /\ \A i, j \in 1..Len(stops) :
                 i < j => IF side = "Buy" THEN stops[i][1] >= stops[j][1]
                                          ELSE stops[i][1] <= stops[j][1]
            /\ \A i, j \in 1..Len(limits) :
                 i < j => IF side = "Buy" THEN limits[i][1] <= limits[j][1]
                                          ELSE limits[i][1] >= limits[j][1]

C3_TieBreakScenario ==
    /\ C3_ProcessedInPriceOrder
    /\ ( /\ PassRan
         /\ side = "Buy"
         /\ RemainingFull = 1000
         /\ PoolTotal("Market") = 0
         /\ \E p, q \in DOMAIN all_requested_unrolled :
              /\ p # q
              /\ Len(all_requested_unrolled[p]) = 1
              /\ Len(all_requested_unrolled[q]) = 1
              /\ all_requested_unrolled[p][1].kind = "StopMarket"
              /\ all_requested_unrolled[q][1].kind = "StopMarket"
              /\ all_requested_unrolled[p][1].price = 90
              /\ all_requested_unrolled[q][1].price = 95
              /\ all_requested_unrolled[p][1].notional = 600
              /\ all_requested_unrolled[q][1].notional = 600 )
       => (last_pass.ok /\ Produced("StopMarket") = <<<<95, 600>>, <<90, 400>>>>)

\* C4: market orders come first: with 1000 acquired, nothing closed, one
\* market order of 1000 and one stop order of 1000, the pass completes with
\* the market order at 1000 and the stop order at 0.
C4_MarketBeforeStop ==
    ( /\ PassRan
      /\ acquired_notional = 1000
      /\ closed_notional = 0
      /\ PoolTotal("Limit") = 0
      /\ \E p, q \in DOMAIN all_requested_unrolled :
           /\ p # q
           /\ Len(all_requested_unrolled[p]) = 1
           /\ Len(all_requested_unrolled[q]) = 1
           /\ all_requested_unrolled[p][1].kind = "Market"
           /\ all_requested_unrolled[q][1].kind = "StopMarket"
           /\ all_requested_unrolled[p][1].notional = 1000
           /\ all_requested_unrolled[q][1].notional = 1000 )
    => /\ last_pass.ok
       /\ \E pr \in PriceSet :
            [i \in 1..Len(last_pass.new_target_orders) |->
                <<last_pass.new_target_orders[i].kind,
                  last_pass.new_target_orders[i].price,
                  last_pass.new_target_orders[i].notional>>]
            = <<<<"Market", 0, 1000>>, <<"StopMarket", pr, 0>>>>

\* C5: a market order asking for more than remaining_full is emitted at
\* exactly remaining_full, and the pass completes and publishes.
C5_MarketClippedToFull ==
    (PassRan /\ PoolTotal("Market") > RemainingFull) =>
        /\ last_pass.ok
        /\ pc = "Running"
        /\ SumNotional(OfKind(last_pass.new_target_orders, "Market")) = RemainingFull
        /\ sent = target_orders.orders

\* C6: a second pass over the same batch map, fill ledger, notionals and side
\* leaves the target order set (orders and the three totals) as the first
\* pass left it.
C6_RecomputeIdempotent ==
    (PassCompleted /\ last_pass.same_inputs) => target_orders = last_pass.before

\* C7: the published target order set holds the orders of the latest pass
\* only, and each pool total covers only those.
C7_FullyRecomputed ==
    PassCompleted =>
        /\ target_orders.orders = last_pass.new_target_orders
        /\ sent = last_pass.new_target_orders
        /\ target_orders.stop_orders_total_notional
             = SumNotional(OfKind(last_pass.new_target_orders, "StopMarket"))
        /\ target_orders.normal_orders_total_notional
             = SumNotional(OfKind(last_pass.new_target_orders, "Limit"))
        /\ target_orders.market_orders_total_notional
             = SumNotional(OfKind(last_pass.new_target_orders, "Market"))

\* The strategies attached with the same subtype as producer p.
SameSubtype(p) == {q \in Range(protocols) : get_subtype(q) = get_subtype(p)}

RECURSIVE UnrolledTotal(_)
UnrolledTotal(S) ==
    IF S = {} THEN 0
    ELSE LET p == CHOOSE x \in S : TRUE
         IN  SumNotional(all_requested_unrolled[p]) + UnrolledTotal(S \ {p})

C10_FrozenAllocation ==
    /\ counted_subtypes = CountSubtypes(protocols)
    /\ (PassRan /\ last_pass.alive # Range(protocols)) =>
         /\ last_pass.total_controlled_size
               = acquired_notional \div Cardinality(SameSubtype(last_pass.update_on))
         /\ \A i \in 1..Len(all_requested_unrolled[last_pass.update_on]) :
              all_requested_unrolled[last_pass.update_on][i].notional
                 <= acquired_notional \div Cardinality(SameSubtype(last_pass.update_on))

\* One of two same-subtype strategies has stopped, and a later pass unrolled
\* the survivor's batch at half of the acquired notional.
C10_Witness ==
    /\ PassCompleted
    /\ Cardinality(SameSubtype(last_pass.update_on)) = 2
    /\ last_pass.alive = {last_pass.update_on}
    /\ all_requested_unrolled[last_pass.update_on] # <<>>
    /\ all_requested_unrolled[last_pass.update_on][1].notional * 2 = acquired_notional

\* A step of the loop itself (one turn of select!).
LoopStep == RecvOrders \/ RecvFills \/ RecvFillsNone

\* C11: when the loop handles a batch from producer p, the batch map entry
\* of p becomes exactly that batch, the entries of the other producers stay
\* as they were, and no step ever removes an entry.
C11_LastWriteWins ==
    [][ /\ DOMAIN all_requested \subseteq DOMAIN all_requested'
        /\ (rx_orders # <<>> /\ rx_orders' = Tail(rx_orders)) =>
             LET batch == Head(rx_orders)
             IN  /\ all_requested'[batch.produced_by] = batch
                 /\ \A q \in DOMAIN all_requested \ {batch.produced_by} :
                      all_requested'[q] = all_requested[q] ]_vars

\* The latest batch of a producer replaced an earlier, different one: an
\* order of the earlier batch was published, and the entry now holds the
\* later batch.
C11_Witness ==
    /\ PassCompleted
    /\ last_pass.event = "orders"
    /\ all_requested[last_pass.update_on].orders # <<>>
    /\ \E i \in 1..Len(last_pass.before.orders) :
         /\ last_pass.before.orders[i].produced_by = last_pass.update_on
         /\ last_pass.before.orders[i].price
              # all_requested[last_pass.update_on].orders[1].price

\* C12: when the loop handles a fill (order_uuid, filled_notional), the
\* ledger value of order_uuid becomes filled_notional (not the old value plus
\* it), the other entries stay as they were, and no step removes a key.
C12_FillOverwrites ==
    [][ /\ DOMAIN all_fills \subseteq DOMAIN all_fills'
        /\ (rx_fills # <<>> /\ rx_fills' = Tail(rx_fills)) =>
             LET fill == Head(rx_fills)
             IN  /\ all_fills'[fill.uuid] = fill.filled_notional
                 /\ \A u \in DOMAIN all_fills \ {fill.uuid} :
                      all_fills'[u] = all_fills[u] ]_vars

\* A fill was handled for an order the ledger already held a fill for.
C12_Witness ==
    /\ PassCompleted
    /\ last_pass.event = "fill"
    /\ last_pass.same_inputs
    /\ \E u \in DOMAIN all_fills : all_fills[u] \in FillSet

\* C13: events are handled one at a time, and handling each one ends with
\* exactly one recompute and one publication of a target order set: the
\* number of publications equals the number of events handled.
C13_OnePublicationPerEvent ==
    /\ n_published = last_pass.n
    /\ last_pass.n > 0 => last_pass.ok

\* C14: once closed_notional has reached acquired_notional the loop is no
\* longer Running, whatever is still open.
C14_LeavesRunningWhenClosed ==
    (last_pass.n > 0 /\ closed_notional >= acquired_notional) => pc # "Running"

\* C15: once every strategy has dropped its sender and the fill source is
\* closed, with nothing left in flight, do_followup has returned or the loop
\* can still take a step towards returning.
C15_ExitsWhenAllClosed ==
    (alive = {} /\ ~fills_open /\ rx_orders = <<>> /\ rx_fills = <<>> /\ pc # "Panicked")
        => (pc = "Returned" \/ ENABLED LoopStep)

coin_quantity_adjusted(size_usdt, current_price, quantity_precision) ==
    LET factor == 10 ^ quantity_precision
    IN  (2 * size_usdt * factor + current_price) \div (2 * current_price)

\* What a call of poll_futures_order does to the number of orders on the
\* exchange: the request is a read.
posted_after_poll_submitting(posted) == posted + 1
posted_after_poll(posted) == posted

\* Where the poll loop stands after one poll: the ? operator returns an
\* error of the request, Filled breaks out of the loop, every other status
\* loops.
poll_outcome_retrying(result) ==
    CASE result = "Filled" -> "Done"
      [] OTHER -> "Polling"
poll_outcome(result) ==
    CASE result = "error" -> "Err"
      [] result = "Filled" -> "Done"
      [] OTHER -> "Polling"

PollResults == OrderStatuses \cup {"error"}

AcqInit ==
    /\ MainIdle
    /\ FollowupIdle
    /\ TsIdle
    /\ acq_pc = "Start"
    /\ \E sd \in Sides, sz \in SizeSet :
          acq_spec = [side |-> sd, size_usdt |-> sz]
    /\ acq_price \in AcqPriceSet
    /\ acq_precision \in PrecisionSet
    /\ acq_target = coin_quantity_adjusted(acq_spec.size_usdt, acq_price, acq_precision)
    /\ acq_acquired = 0
    /\ acq_posted = 0
    /\ acq_polls = 0
    /\ acq_failed_polls = 0
    /\ acq_last_poll = "none"

\* post_futures_order: the one submission of the entry order; ? returns its
\* error.
PostOrder(ok) ==
    /\ acq_pc = "Start"
    /\ acq_posted' = acq_posted + 1
    /\ acq_pc' = IF ok THEN "Polling" ELSE "Err"
    /\ UNCHANGED <<acq_spec, acq_price, acq_precision, acq_target, acq_acquired,
                   acq_polls, acq_failed_polls, acq_last_poll>>
    /\ UNCHANGED <<followup_vars, ts_vars, main_vars>>

\* One turn of the poll loop; origQty of the polled order is the submitted
\* quantity.
PollOrder(result) ==
    /\ acq_pc = "Polling"
    /\ acq_polls < MaxPolls
    /\ acq_polls' = acq_polls + 1
    /\ acq_failed_polls' = acq_failed_polls + (IF result = "error" THEN 1 ELSE 0)
    /\ acq_last_poll' = result
    /\ acq_posted' = posted_after_poll(acq_posted)
    /\ acq_pc' = poll_outcome(result)
    /\ acq_acquired' = IF poll_outcome(result) = "Done"
                         THEN acq_acquired + acq_target
                         ELSE acq_acquired
    /\ UNCHANGED <<acq_spec, acq_price, acq_precision, acq_target>>
    /\ UNCHANGED <<followup_vars, ts_vars, main_vars>>

PostEntryOrder == \E ok \in BOOLEAN : PostOrder(ok)
PollEntryOrder == \E result \in PollResults : PollOrder(result)

AcqNext ==
    \/ PostEntryOrder
    \/ PollEntryOrder

SpecAcq == AcqInit /\ [][AcqNext]_vars

\* ---------------------------------------------------- TrailingStop::attach

\* price * percent, the percent given in whole percents.
percent_of(price, percent) == (price * percent) \div 100

\* The handling of one price of the stream: the two tests run one after
\* the other on the cache and the orders.
on_price_pushing(price, position_side, percent, cache) ==
    LET low == IF price < cache.bottom
                 THEN [cache EXCEPT
                         !.bottom = price,
                         !.orders = IF position_side = "Sell"
                                      THEN Append(@, [kind |-> "StopMarket", side |-> "Buy",
                                                      price |-> price + percent_of(price, percent)])
                                      ELSE @]
                 ELSE cache
    IN  IF price > low.top
          THEN [low EXCEPT
                  !.top = price,
                  !.orders = IF position_side = "Buy"
                               THEN Append(@, [kind |-> "StopMarket", side |-> "Sell",
                                               price |-> price - percent_of(price, percent)])
                               ELSE @]
          ELSE low

on_price_other_bound(price, position_side, percent, cache) ==
    LET low == IF price < cache.top
                 THEN [cache EXCEPT
                         !.bottom = price,
                         !.orders = IF position_side = "Sell"
                                      THEN << [kind |-> "StopMarket", side |-> "Buy",
                                               price |-> price + percent_of(price, percent)] >>
                                      ELSE @]
                 ELSE cache
    IN  IF price > low.bottom
          THEN [low EXCEPT
                  !.top = price,
                  !.orders = IF position_side = "Buy"
                               THEN << [kind |-> "StopMarket", side |-> "Sell",
                                        price |-> price - percent_of(price, percent)] >>
                               ELSE @]
          ELSE low

on_price(price, position_side, percent, cache) ==
    LET low == IF price < cache.bottom
                 THEN [cache EXCEPT
                         !.bottom = price,
                         !.orders = IF position_side = "Sell"
                                      THEN << [kind |-> "StopMarket", side |-> "Buy",
                                               price |-> price + percent_of(price, percent)] >>
                                      ELSE @]
                 ELSE cache
    IN  IF price > low.top
          THEN [low EXCEPT
                  !.top = price,
                  !.orders = IF position_side = "Buy"
                               THEN << [kind |-> "StopMarket", side |-> "Sell",
                                        price |-> price - percent_of(price, percent)] >>
                               ELSE @]
          ELSE low

\* Messages of the stream: a mark price, JSON without a price, bytes that
\* are not JSON, and an error item.
TsMessages ==
    [type : {"price"}, price : TsPriceSet]
        \cup {[type |-> "other"], [type |-> "malformed"], [type |-> "error"]}

TsInit ==
    /\ MainIdle
    /\ FollowupIdle
    /\ AcqIdle
    /\ ts_pc = "Streaming"
    /\ ts_side \in Sides
    /\ ts_percent \in TsPercentSet
    /\ \E price \in TsPriceSet :
         /\ ts_top = price
         /\ ts_bottom = price
    /\ ts_orders = <<>>
    /\ ts_stream = "open"
    /\ ts_result = "none"
    /\ ts_ticks = 0
    /\ ts_last = [type |-> "none"]

\* The closure of for_each on one item of the stream.
TsMessage(message) ==
    /\ ts_pc = "Streaming"
    /\ ts_ticks < MaxTicks
    /\ ts_ticks' = ts_ticks + 1
    /\ ts_last' = message
    /\ LET after == IF message.type = "price"
                      THEN on_price(message.price, ts_side, ts_percent,
                                    [top |-> ts_top, bottom |-> ts_bottom, orders |-> ts_orders])
                      ELSE [top |-> ts_top, bottom |-> ts_bottom, orders |-> ts_orders]
       IN  /\ ts_top' = after.top
           /\ ts_bottom' = after.bottom
           /\ ts_orders' = after.orders
    /\ IF message.type = "error"
         THEN /\ ts_pc' = "Panicked"
              /\ ts_stream' = "failed"
         ELSE UNCHANGED <<ts_pc, ts_stream>>
    /\ UNCHANGED <<ts_side, ts_percent, ts_result>>
    /\ UNCHANGED <<followup_vars, acq_vars, main_vars>>

\* The stream is over: for_each completes and attach comes to its end.
TsStreamEnd ==
    /\ ts_pc = "Streaming"
    /\ ts_pc' = "Returned"
    /\ ts_stream' = "ended"
    /\ ts_result' = "Ok"
    /\ UNCHANGED <<ts_side, ts_percent, ts_top, ts_bottom, ts_orders, ts_ticks, ts_last>>
    /\ UNCHANGED <<followup_vars, acq_vars, main_vars>>

TsReceive == \E message \in TsMessages : TsMessage(message)

TsNext ==
    \/ TsReceive
    \/ TsStreamEnd

SpecTs == TsInit /\ [][TsNext]_vars

\* ------------------------------------------------- acquisition and stream

\* C17: when the price stream of the trailing stop ends or yields an error,
\* attach hands back a terminal error instead of finishing as if successful.
C17_DisconnectReported ==
    ts_stream # "open" => ts_result = "Err"

\* C18: a poll that reports Canceled, Expired or ExpiredInMatch ends the
\* acquisition with an error: it is neither still polling nor done.
C18_TerminalStatusIsFatal ==
    acq_last_poll \in {"Canceled", "Expired", "ExpiredInMatch"} => acq_pc = "Err"

\* C19: one call of the acquisition submits exactly one entry order, however
\* many polls it takes, and no poll changes the orders on the exchange.
C19_OneSubmission ==
    /\ acq_pc # "Start" => acq_posted = 1
    /\ acq_pc = "Start" => acq_posted = 0 /\ acq_polls = 0

\* The acquisition completed on its second or a later poll.
C19_Witness ==
    /\ acq_pc = "Done"
    /\ acq_polls > 1
    /\ acq_posted = 1

side_and_target_size(s, total_balance) ==
    CASE s > 0 -> [exit |-> FALSE, side |-> "Buy", target_size |-> (s * total_balance) \div 100]
      [] s < 0 -> [exit |-> FALSE, side |-> "Sell", target_size |-> ((-s) * total_balance) \div 100]
      [] OTHER -> [exit |-> TRUE, side |-> "Buy", target_size |-> 0]

MainInit ==
    /\ FollowupIdle
    /\ AcqIdle
    /\ TsIdle
    /\ main_pc = "Parsed"
    /\ cli_size \in CliSizeSet
    /\ balance \in BalanceSet

\* Commands::New: the match, PositionSpec::new and the call of
\* do_acquisition up to its current_state.
MainNew ==
    /\ main_pc = "Parsed"
    /\ LET m == side_and_target_size(cli_size, balance)
       IN  IF m.exit
             THEN /\ main_pc' = "Exited"
                  /\ UNCHANGED acq_vars
             ELSE /\ main_pc' = "Acquiring"
                  /\ acq_pc' = "Start"
                  /\ acq_spec' = [side |-> m.side, size_usdt |-> m.target_size]
                  /\ acq_price' \in AcqPriceSet
                  /\ acq_precision' \in PrecisionSet
                  /\ acq_target' = coin_quantity_adjusted(m.target_size, acq_price', acq_precision')
                  /\ UNCHANGED <<acq_acquired, acq_posted, acq_polls,
                                 acq_failed_polls, acq_last_poll>>
    /\ UNCHANGED <<cli_size, balance>>
    /\ UNCHANGED <<followup_vars, ts_vars>>

MainNext ==
    \/ MainNew
    \/ PostEntryOrder
    \/ PollEntryOrder

SpecMain == MainInit /\ [][MainNext]_vars

\* C21: do_acquisition is never entered with a target size that is zero or
\* negative: main either exits first or passes a size_usdt > 0.
C21_AcquisitionSizePositive ==
    acq_pc # "Idle" => acq_spec.size_usdt > 0

\* C22: closed_notional <= acquired_notional in every state of the followup
\* phase.
C22_ClosedWithinAcquired ==
    pc # "Idle" => closed_notional <= acquired_notional

\* The loop has handled a fill of an order of a batch it holds.
C22_Witness ==
    /\ PassCompleted
    /\ last_pass.event = "fill"
    /\ \E u \in DOMAIN all_fills : all_fills[u] > 0
    /\ acquired_notional > 0

\* A step of attach that handled a mark price.
PriceStep == ts_ticks' # ts_ticks /\ ts_last'.type = "price"

\* C23: on a Sell position a price strictly below the running low becomes
\* the low and leaves exactly one StopMarket Buy order at low + low * percent;
\* on a Buy position a price strictly above the running high becomes the
\* high and leaves exactly one StopMarket Sell order at high - high * percent;
\* a new low on a Buy position and a new high on a Sell position leave the
\* orders as they are; the strategy never holds more than one order.
C23_TriggerRule ==
    [][ /\ Len(ts_orders') <= 1
        /\ PriceStep =>
             LET price == ts_last'.price
                 offset == (price * ts_percent) \div 100
             IN  /\ price < ts_bottom =>
                       /\ ts_bottom' = price
                       /\ ts_side = "Sell" =>
                            ts_orders' = << [kind |-> "StopMarket", side |-> "Buy",
                                             price |-> ts_bottom' + offset] >>
                       /\ ts_side = "Buy" => ts_orders' = ts_orders
                 /\ price > ts_top =>
                       /\ ts_top' = price
                       /\ ts_side = "Buy" =>
                            ts_orders' = << [kind |-> "StopMarket", side |-> "Sell",
                                             price |-> ts_top' - offset] >>
                       /\ ts_side = "Sell" => ts_orders' = ts_orders ]_vars

\* A Sell position after a price that is a new low: one order is held.
C23_Witness ==
    /\ ts_side = "Sell"
    /\ ts_last.type = "price"
    /\ ts_last.price = ts_bottom
    /\ ts_top - ts_bottom > 100
    /\ Len(ts_orders) = 1

C24_NegativeTrackerAborts ==
    (PassRan /\ (last_pass.spot < 0 \/ last_pass.normal < 0)) =>
        /\ pc = "Panicked"
        /\ target_orders = last_pass.before
        /\ sent = last_pass.before.orders
        /\ n_published < last_pass.n

\* A pass was aborted on a negative tracker after an earlier pass had
\* published orders.
C24_Witness ==
    /\ PassRan
    /\ last_pass.spot < 0
    /\ pc = "Panicked"
    /\ last_pass.before.orders # <<>>
    /\ last_pass.new_target_orders # <<>>

\* The trackers after the market pool of the latest pass, for one iteration
\* order of the map.
AfterMarketPool(order) ==
    process_pool(pool(all_requested_unrolled, order, "Market"), initial_trackers)

\* C25: the market pool takes each market order's notional from all three
\* trackers: after it the three are equal, and when the pool completes they
\* are the full remainder less the pool's total, in whatever order the
\* market orders are processed.
C25_MarketPoolUniform ==
    PassRan =>
        \A order \in IterationOrders(DOMAIN all_requested_unrolled) :
            LET after == AfterMarketPool(order)
            IN  /\ after.spot = after.full
                /\ after.normal = after.full
                /\ after.ok => after.full = RemainingFull - PoolTotal("Market")
                /\ after.ok <=> PoolTotal("Market") <= RemainingFull

\* The latest pass completed with two market orders of different sizes in
\* its market pool.
C25_Witness ==
    /\ PassCompleted
    /\ \E order \in IterationOrders(DOMAIN all_requested_unrolled) :
         LET market == pool(all_requested_unrolled, order, "Market")
         IN  /\ Len(market) = 2
             /\ market[1].notional # market[2].notional
             /\ market[1].notional > 0
             /\ market[2].notional > 0

\* C27: whenever the loop handles a fill of producer p, the batch map holds
\* a batch of p: the lookup of update_unrolled succeeds and the fill is
\* followed by a recompute.
C27_FillLookupSucceeds ==
    last_pass.event = "fill" =>
        /\ last_pass.update_on \in DOMAIN all_requested
        /\ PassRan
====
